---- MODULE Spec2Model ----
(***************************************************************************)
(* chord-id: MIDI listener (useMidi), active-note registry, chord          *)
(* detection (detectChord) and the audio voice manager (useAudio).         *)
(***************************************************************************)
EXTENDS Integers, Sequences, FiniteSets, Bags, TLC

VARIABLES
    \* ---- useAudio (src/src/hooks/useAudio.ts) ----
    isEnabled,            \* useState(false)
    isLoading,            \* useState(false)
    error,                \* useState<string|null>(null); "null" is null
    currentInstrumentId,  \* useState(DEFAULT_INSTRUMENT_ID)
    audioContextRef,      \* audioContextRef.current: 0 is null, else the context's number
    contexts,             \* number of AudioContext objects created (none is closed before unmount)
    instrumentRef,        \* instrumentRef.current: NoInstrument or a backend instance
    activeNotesRef,       \* activeNotesRef.current: Map note -> stop function or null
    voices,               \* bag of the sounding voices of all backend instances
    calls,                \* bag of the async calls suspended at an await: enable() / setInstrument()
    lastSwitch,           \* history: the latest setInstrument request that passed its guard
                          \* (tick flips at every such request)
    volume,               \* useState(DEFAULT_VOLUME)
    lastStart,            \* history: the velocity playNote last got and the one it passed
                          \* to the backend
    unmounted,            \* the cleanup of useAudio's unmount effect has run
    \* ---- useMidi (src/unnamed/part_002) ----
    midiEnabled,          \* useMidi's isEnabled, useState(false)
    isConnecting,         \* useState(false)
    midiError,            \* useMidi's error; "null" is null
    inputs,               \* useState<Input[]>([]): the exposed device list
    selectedInput,        \* useState<Input|null>(null); 0 is null
    activeNotes,          \* useState<Set<number>>: the Set's elements in insertion order
    webMidi,              \* the WebMidi singleton: enabled, the note listeners on each input,
                          \* the host's ports, and whether connect() hooked the port events
    connecting,           \* connect() calls suspended at `await WebMidi.enable()`
    boundHeld,            \* history: notes the bound device switched on, not yet off or cleared
    lastOp,               \* history: the last operation of useMidi
    snapshot,             \* history: whether the last registry update returned a new Set
                          \* object and left the Set published before it as it was
    \* ---- AppContent (src/src/App.tsx) ----
    settings,             \* useState<AppSettings>: instrumentId and volume
    effectDeps,           \* React: the dependency values the two sync effects last ran with
    \* ---- WebSocketProvider (src/src/context/WebSocketContext.tsx) ----
    isConnected,          \* useState(false)
    clientCount,          \* useState(0)
    wsRef,                \* wsRef.current: "null" or the readyState of the socket it holds
    reconnectAttemptsRef, \* reconnectAttemptsRef.current
    reconnectTimeoutRef,  \* reconnectTimeoutRef.current: "null", or its timer "pending" / "fired"
    wsMounted,            \* the provider is mounted
    closing,              \* sockets closed by the cleanup whose close event is still to come
    scheduled             \* history: reconnects scheduled since a connection last opened

audioVars == <<isEnabled, isLoading, error, currentInstrumentId, audioContextRef,
               contexts, instrumentRef, activeNotesRef, voices, calls, lastSwitch>>

midiVars == <<midiEnabled, isConnecting, midiError, inputs, selectedInput, activeNotes,
              webMidi, connecting, boundHeld, lastOp, snapshot>>

levelVars == <<volume, lastStart>>

appVars == <<settings, effectDeps>>

wsVars == <<isConnected, clientCount, wsRef, reconnectAttemptsRef, reconnectTimeoutRef,
            wsMounted, closing, scheduled>>

vars == <<audioVars, levelVars, unmounted, midiVars, appVars, wsVars>>

-----------------------------------------------------------------------------
\* Bounds of the model
MaxVoices == 2      \* voices sounding at the same time
MaxCalls == 2       \* async calls of one hook suspended at the same time
MaxListeners == 2   \* note listener pairs attached to one input

\* Inputs
Notes == {60, 64}
Velocities == {0, 127}
InstrumentIds == {"grand-piano", "electric-piano", "organ"}

-----------------------------------------------------------------------------
\* The static instrument catalog
instruments ==
    << [id |-> "grand-piano",    type |-> "sampled"],
       [id |-> "electric-piano", type |-> "sampled"],
       [id |-> "strings",        type |-> "sampled"],
       [id |-> "organ",          type |-> "synth"],
       [id |-> "synth-pad",      type |-> "synth"],
       [id |-> "synth-lead",     type |-> "synth"] >>

\* instruments.find(i => i.id === id) || instruments[0]
getInstrument(id) ==
    IF \E i \in 1..Len(instruments) : instruments[i].id = id
    THEN instruments[CHOOSE i \in 1..Len(instruments) :
                        /\ instruments[i].id = id
                        /\ \A j \in 1..(i-1) : instruments[j].id # id]
    ELSE instruments[1]

DEFAULT_INSTRUMENT_ID == "grand-piano"

DEFAULT_VOLUME == 80

NoInstrument == [kind |-> "none", sound |-> "none"]

\* No note was started yet
NoStart == [kind |-> "none", velocity |-> 0, value |-> 0]

\* new Tone.PolySynth(Tone.Synth, {oscillator: {type: ...}}): the oscillator by synth type
\* and synth.volume.value = -6, in hundredths of a dB
createSynth(type) ==
    [kind |-> "synth",
     sound |-> IF type = "organ" THEN "sine"
               ELSE IF type = "synth-pad" THEN "sawtooth" ELSE "square",
     volume |-> -600]

\* The sampler loadSampledInstrument constructs for an id (the switch's four arms)
loadSampledInstrument(instrumentId) ==
    [kind |-> "sampled",
     sound |-> IF instrumentId = "grand-piano" THEN "SplendidGrandPiano"
               ELSE IF instrumentId = "electric-piano" THEN "electric_piano_1"
               ELSE IF instrumentId = "strings" THEN "string_ensemble_1"
               ELSE "SplendidGrandPiano"]

\* 'releaseAll' in instrumentRef.current: only Tone.PolySynth has the method
hasReleaseAll(inst) == inst.kind = "synth"

-----------------------------------------------------------------------------
\* Voices.  voices is the bag of the sounding voices, each [note, kind, cur, held]:
\* kind is the backend kind that started it; cur says that it belongs to the
\* backend instance instrumentRef now holds; held says that the stop function
\* start() returned for it is the one activeNotesRef stores under its note.  A
\* released voice leaves the bag.  activeNotesRef maps a note to "null" or to
\* "stopFn", the stop function of the held voice of that note.

Max(a, b) == IF a >= b THEN a ELSE b
Min(a, b) == IF a <= b THEN a ELSE b

Restrict(f, S) == [x \in S |-> f[x]]

\* normalizedVelocity without the 0.1 floor
synthVelocity_noFloor(velocity) == 10 * velocity

\* Math.max(0.1, velocity / 127), kept exact as a numerator over 1270
synthVelocity(velocity) == Max(127, 10 * velocity)

\* Math.max(10, Math.min(127, Math.round(velocity)))
sampledVelocity(velocity) == Max(10, Min(127, velocity))

\* The bag vs with every voice v replaced by f[v]
MapVoices(vs, f) ==
    [w \in {f[v] : v \in BagToSet(vs)} |->
        LET from == {v \in BagToSet(vs) : f[v] = w}
            RECURSIVE Sum(_)
            Sum(S) == IF S = {} THEN 0
                      ELSE LET v == CHOOSE v \in S : TRUE IN vs[v] + Sum(S \ {v})
        IN Sum(from)]

\* The bag vs without the voices that satisfy drop
DropVoices(vs, drop(_)) == Restrict(vs, {v \in BagToSet(vs) : ~drop(v)})

\* PolySynth.releaseAll(): every active voice of this synth is released
releaseAll(vs) == DropVoices(vs, LAMBDA v : v.cur /\ v.kind = "synth")

\* A new backend instance replaces instrumentRef.current: the voices started so
\* far belong to an instance nothing refers to any more.
Outgoing(vs) == MapVoices(vs, [v \in BagToSet(vs) |-> [v EXCEPT !.cur = FALSE]])

\* PolySynth.triggerRelease(freq): the first active voice of that note, not yet
\* released, is released; nothing happens when there is none.
triggerRelease(vs, midiNote) ==
    LET live == {v \in BagToSet(vs) : v.cur /\ v.kind = "synth" /\ v.note = midiNote}
    IN IF live = {} THEN vs
       ELSE vs (-) SetToBag({CHOOSE v \in live : TRUE})

\* Map.set(key, value)
MapSet(m, key, value) == [n \in DOMAIN m \cup {key} |-> IF n = key THEN value ELSE m[n]]

\* Map.delete(key)
MapDelete(m, key) == Restrict(m, DOMAIN m \ {key})

\* The map's entry for midiNote is overwritten or deleted: the stop function it
\* held, if any, is dropped without being called.
Unheld(vs, midiNote) ==
    MapVoices(vs, [v \in BagToSet(vs) |->
                      IF v.note = midiNote THEN [v EXCEPT !.held = FALSE] ELSE v])

\* The stored stop function is called: its voice stops
CallStopFn(vs, midiNote) == DropVoices(vs, LAMBDA v : v.note = midiNote /\ v.held)

\* instrument.triggerAttack(...) or instrument.start(...): one more sounding voice
StartVoice(vs, inst, midiNote) ==
    vs (+) SetToBag({[note |-> midiNote, kind |-> inst.kind, cur |-> TRUE,
                      held |-> inst.kind = "sampled"]})

\* playNote(midiNote, velocity) on the state st = [voices, activeNotesRef, lastStart]
playNote(st, inst, midiNote, velocity) ==
    IF inst = NoInstrument THEN st
    ELSE IF inst.kind = "synth"
    THEN [voices |-> StartVoice(Unheld(st.voices, midiNote), inst, midiNote),
          activeNotesRef |-> MapSet(st.activeNotesRef, midiNote, "null"),
          lastStart |-> [kind |-> "synth", velocity |-> velocity,
                         value |-> synthVelocity(velocity)]]
    ELSE [voices |-> StartVoice(Unheld(st.voices, midiNote), inst, midiNote),
          activeNotesRef |-> MapSet(st.activeNotesRef, midiNote, "stopFn"),
          lastStart |-> [kind |-> "sampled", velocity |-> velocity,
                         value |-> sampledVelocity(velocity)]]

\* stopNote without the final activeNotesRef.current.delete(midiNote)
stopNote_keepsEntry(st, inst, midiNote) ==
    IF inst = NoInstrument THEN st
    ELSE LET stopFn == IF midiNote \in DOMAIN st.activeNotesRef
                       THEN st.activeNotesRef[midiNote] ELSE "null"
         IN [voices |-> IF inst.kind = "synth" THEN triggerRelease(st.voices, midiNote)
                        ELSE IF stopFn # "null" THEN CallStopFn(st.voices, midiNote)
                        ELSE st.voices,
             activeNotesRef |-> st.activeNotesRef]

\* stopNote(midiNote) on the state st = [voices, activeNotesRef]
stopNote(st, inst, midiNote) ==
    IF inst = NoInstrument THEN st
    ELSE LET stopFn == IF midiNote \in DOMAIN st.activeNotesRef
                       THEN st.activeNotesRef[midiNote] ELSE "null"
             vs == IF inst.kind = "synth" THEN triggerRelease(st.voices, midiNote)
                   ELSE IF stopFn # "null" THEN CallStopFn(st.voices, midiNote)
                   ELSE st.voices
         IN [voices |-> Unheld(vs, midiNote),
             activeNotesRef |-> MapDelete(st.activeNotesRef, midiNote)]

-----------------------------------------------------------------------------
\* State after useAudio() is constructed
AudioInit ==
    /\ isEnabled = FALSE
    /\ isLoading = FALSE
    /\ error = "null"
    /\ currentInstrumentId = DEFAULT_INSTRUMENT_ID
    /\ audioContextRef = 0
    /\ contexts = 0
    /\ instrumentRef = NoInstrument
    /\ activeNotesRef = <<>>
    /\ voices = EmptyBag
    /\ calls = EmptyBag
    /\ lastSwitch = [id |-> "none", overlapped |-> FALSE, status |-> "none", tick |-> FALSE]
    /\ volume = DEFAULT_VOLUME
    /\ lastStart = NoStart
    /\ unmounted = FALSE

\* The suspended calls, one more (Suspend) or one less (Settle)
Suspend(cs, c) == cs (+) SetToBag({c})
Settle(cs, c) == cs (-) SetToBag({c})
Suspended == BagToSet(calls)

\* A setInstrument call suspended at `await loadSampledInstrument(...)`
SwitchLoading(c) == c.op = "setInstrument"

\* enable(): up to `await Tone.start()`
enable_call ==
    /\ UNCHANGED <<midiVars, levelVars, unmounted, appVars, wsVars>>
    /\ IF isEnabled
       THEN UNCHANGED audioVars
       ELSE /\ BagCardinality(calls) < MaxCalls
            /\ isLoading' = TRUE
            /\ error' = "null"
            /\ calls' = Suspend(calls, [op |-> "enable", pc |-> "Tone.start",
                                       instrumentId |-> DEFAULT_INSTRUMENT_ID,
                                       latest |-> FALSE])
            /\ UNCHANGED <<isEnabled, currentInstrumentId, audioContextRef, contexts,
                           instrumentRef, activeNotesRef, voices, lastSwitch>>

\* enable(): Tone.start() resolved; new AudioContext() (context.resume() is taken
\* to resolve when the context starts suspended) is stored in audioContextRef and
\* the default instrument's load starts.
enable_started(c) ==
    /\ UNCHANGED <<midiVars, levelVars, unmounted, appVars, wsVars>>
    /\ c \in Suspended
    /\ c.op = "enable" /\ c.pc = "Tone.start"
    /\ contexts' = contexts + 1
    /\ audioContextRef' = contexts + 1
    /\ calls' = Suspend(Settle(calls, c), [c EXCEPT !.pc = "load"])
    /\ UNCHANGED <<isEnabled, isLoading, error, currentInstrumentId, instrumentRef,
                   activeNotesRef, voices, lastSwitch>>

\* enable(): Tone.start() rejected: the outer catch sets error, finally clears
\* isLoading.
enable_failed(c) ==
    /\ UNCHANGED <<midiVars, levelVars, unmounted, appVars, wsVars>>
    /\ c \in Suspended
    /\ c.op = "enable" /\ c.pc = "Tone.start"
    /\ error' = "Failed to enable audio"
    /\ isLoading' = FALSE
    /\ calls' = Settle(calls, c)
    /\ UNCHANGED <<isEnabled, currentInstrumentId, audioContextRef, contexts,
                   instrumentRef, activeNotesRef, voices, lastSwitch>>

\* enable(): the default load resolved
enable_loaded(c) ==
    /\ UNCHANGED <<midiVars, levelVars, unmounted, appVars, wsVars>>
    /\ c \in Suspended
    /\ c.op = "enable" /\ c.pc = "load"
    /\ instrumentRef' = loadSampledInstrument(DEFAULT_INSTRUMENT_ID)
    /\ voices' = Outgoing(voices)
    /\ isEnabled' = TRUE
    /\ isLoading' = FALSE
    /\ calls' = Settle(calls, c)
    /\ UNCHANGED <<error, currentInstrumentId, audioContextRef, contexts,
                   activeNotesRef, lastSwitch>>

\* enable() falling back silently: currentInstrumentId is left alone
enable_fallback_silent(c) ==
    /\ UNCHANGED <<midiVars, levelVars, unmounted, appVars, wsVars>>
    /\ c \in Suspended
    /\ c.op = "enable" /\ c.pc = "load"
    /\ instrumentRef' = createSynth("organ")
    /\ voices' = Outgoing(voices)
    /\ isEnabled' = TRUE
    /\ isLoading' = FALSE
    /\ calls' = Settle(calls, c)
    /\ UNCHANGED <<error, currentInstrumentId, audioContextRef, contexts, activeNotesRef,
                   lastSwitch>>

\* enable(): the default load rejected; the inner catch falls back to the organ synth
enable_fallback(c) ==
    /\ UNCHANGED <<midiVars, levelVars, unmounted, appVars, wsVars>>
    /\ c \in Suspended
    /\ c.op = "enable" /\ c.pc = "load"
    /\ instrumentRef' = createSynth("organ")
    /\ voices' = Outgoing(voices)
    /\ currentInstrumentId' = "organ"
    /\ isEnabled' = TRUE
    /\ isLoading' = FALSE
    /\ calls' = Settle(calls, c)
    /\ UNCHANGED <<error, audioContextRef, contexts, activeNotesRef, lastSwitch>>

\* History only: a newer setInstrument request makes every suspended call an older one
Older(cs) ==
    LET old(k) == [k EXCEPT !.latest = FALSE]
    IN [k \in {old(x) : x \in BagToSet(cs)} |->
           (IF k \in DOMAIN cs THEN cs[k] ELSE 0)
           + (IF [k EXCEPT !.latest = TRUE] \in DOMAIN cs
              THEN cs[[k EXCEPT !.latest = TRUE]] ELSE 0)]

\* The voices after setInstrument's "stop all current notes" block
StopAllCurrentNotes(inst, vs) ==
    IF inst # NoInstrument /\ hasReleaseAll(inst) THEN releaseAll(vs) ELSE vs

\* setInstrument without its `if (!audioContextRef.current) return`
setInstrument_call_unguarded(instrumentId) ==
    /\ UNCHANGED <<midiVars, levelVars, unmounted, appVars, wsVars>>
    /\ BagCardinality(calls) < MaxCalls
    /\ isLoading' = TRUE
    /\ voices' = StopAllCurrentNotes(instrumentRef, voices)
    /\ calls' = Suspend(Older(calls), [op |-> "setInstrument", pc |-> "load",
                                       instrumentId |-> instrumentId, latest |-> TRUE])
    /\ lastSwitch' = [id |-> instrumentId, overlapped |-> FALSE,
                      status |-> "loading", tick |-> ~lastSwitch.tick]
    /\ UNCHANGED <<isEnabled, error, currentInstrumentId, audioContextRef,
                   contexts, instrumentRef, activeNotesRef>>

\* setInstrument(instrumentId): up to `await loadSampledInstrument(...)` for a
\* sampled instrument, the whole call for a synth.
setInstrument_audio(instrumentId) ==
    /\ IF audioContextRef = 0
       THEN UNCHANGED audioVars
       ELSE LET instrument == getInstrument(instrumentId)
                overlapped == \E k \in Suspended : SwitchLoading(k)
                older == Older(calls)
            IN IF instrument.type = "sampled"
               THEN /\ BagCardinality(calls) < MaxCalls
                    /\ isLoading' = TRUE
                    /\ voices' = StopAllCurrentNotes(instrumentRef, voices)
                    /\ calls' = Suspend(older, [op |-> "setInstrument", pc |-> "load",
                                               instrumentId |-> instrumentId,
                                               latest |-> TRUE])
                    /\ lastSwitch' = [id |-> instrumentId, overlapped |-> overlapped,
                                      status |-> "loading", tick |-> ~lastSwitch.tick]
                    /\ UNCHANGED <<isEnabled, error, currentInstrumentId, audioContextRef,
                                   contexts, instrumentRef, activeNotesRef>>
               ELSE /\ voices' = Outgoing(StopAllCurrentNotes(instrumentRef, voices))
                    /\ instrumentRef' = createSynth(instrumentId)
                    /\ currentInstrumentId' = instrumentId
                    /\ isLoading' = FALSE
                    /\ calls' = older
                    /\ lastSwitch' = [id |-> instrumentId, overlapped |-> overlapped,
                                      status |-> "installed", tick |-> ~lastSwitch.tick]
                    /\ UNCHANGED <<isEnabled, error, audioContextRef, contexts,
                                   activeNotesRef>>

\* The hook's setInstrument called on its own
setInstrument_call(instrumentId) ==
    /\ UNCHANGED <<midiVars, levelVars, unmounted, appVars, wsVars>>
    /\ setInstrument_audio(instrumentId)

\* What a resolved sampled load of setInstrument installs
InstallLoaded(c) ==
    [instrumentRef |-> loadSampledInstrument(c.instrumentId),
     currentInstrumentId |-> c.instrumentId]

\* setInstrument(): the load resolved
setInstrument_loaded(c) ==
    /\ UNCHANGED <<midiVars, levelVars, unmounted, appVars, wsVars>>
    /\ c \in Suspended
    /\ SwitchLoading(c)
    /\ instrumentRef' = InstallLoaded(c).instrumentRef
    /\ currentInstrumentId' = InstallLoaded(c).currentInstrumentId
    /\ voices' = Outgoing(voices)
    /\ isLoading' = FALSE
    /\ calls' = Settle(calls, c)
    /\ lastSwitch' = IF c.latest THEN [lastSwitch EXCEPT !.status = "installed"]
                     ELSE lastSwitch
    /\ UNCHANGED <<isEnabled, error, audioContextRef, contexts, activeNotesRef>>

\* setInstrument() rejecting without its finally block: isLoading is left alone
setInstrument_failed_noFinally(c) ==
    /\ UNCHANGED <<midiVars, levelVars, unmounted, appVars, wsVars>>
    /\ c \in Suspended
    /\ SwitchLoading(c)
    /\ calls' = Settle(calls, c)
    /\ lastSwitch' = IF c.latest THEN [lastSwitch EXCEPT !.status = "failed"]
                     ELSE lastSwitch
    /\ UNCHANGED <<isEnabled, isLoading, error, currentInstrumentId, audioContextRef,
                   contexts, instrumentRef, activeNotesRef, voices>>

\* setInstrument(): the load rejected; the catch logs, finally clears isLoading
setInstrument_failed(c) ==
    /\ UNCHANGED <<midiVars, levelVars, unmounted, appVars, wsVars>>
    /\ c \in Suspended
    /\ SwitchLoading(c)
    /\ isLoading' = FALSE
    /\ calls' = Settle(calls, c)
    /\ lastSwitch' = IF c.latest THEN [lastSwitch EXCEPT !.status = "failed"]
                     ELSE lastSwitch
    /\ UNCHANGED <<isEnabled, error, currentInstrumentId, audioContextRef, contexts,
                   instrumentRef, activeNotesRef, voices>>

\* The App's onNoteOn subscriber: audio.playNote(note, velocity)
playNote_call(midiNote, velocity) ==
    /\ UNCHANGED <<midiVars, volume, unmounted, appVars, wsVars>>
    /\ LET st == playNote([voices |-> voices, activeNotesRef |-> activeNotesRef,
                           lastStart |-> lastStart],
                          instrumentRef, midiNote, velocity)
       IN /\ BagCardinality(st.voices) <= MaxVoices
          /\ voices' = st.voices
          /\ activeNotesRef' = st.activeNotesRef
          /\ lastStart' = st.lastStart
          /\ UNCHANGED <<isEnabled, isLoading, error, currentInstrumentId, audioContextRef,
                         contexts, instrumentRef, calls, lastSwitch>>

\* The App's onNoteOff subscriber: audio.stopNote(note)
stopNote_call(midiNote) ==
    /\ UNCHANGED <<midiVars, levelVars, unmounted, appVars, wsVars>>
    /\ LET st == stopNote([voices |-> voices, activeNotesRef |-> activeNotesRef],
                          instrumentRef, midiNote)
       IN /\ voices' = st.voices
          /\ activeNotesRef' = st.activeNotesRef
          /\ UNCHANGED <<isEnabled, isLoading, error, currentInstrumentId, audioContextRef,
                         contexts, instrumentRef, calls, lastSwitch>>

\* -Infinity dB
MinusInfinity == -1000000

\* newVolume === 0 ? -Infinity : -60 + (newVolume / 100) * 54, in hundredths of a dB
volumeToDb(newVolume) ==
    IF newVolume = 0 THEN MinusInfinity ELSE -6000 + newVolume * 54

\* setVolume(newVolume): the state is set; only a Tone.PolySynth gets the gain
setVolume_audio(newVolume) ==
    /\ volume' = newVolume
    /\ instrumentRef' = IF instrumentRef.kind = "synth"
                        THEN [instrumentRef EXCEPT !.volume = volumeToDb(newVolume)]
                        ELSE instrumentRef
    /\ UNCHANGED <<isEnabled, isLoading, error, currentInstrumentId, audioContextRef,
                   contexts, activeNotesRef, voices, calls, lastSwitch, lastStart>>

\* The hook's setVolume called on its own
setVolume_call(newVolume) ==
    /\ UNCHANGED <<midiVars, unmounted, appVars, wsVars>>
    /\ setVolume_audio(newVolume)

\* The cleanup of the unmount effect: releaseAll() on a backend that has the
\* method, then close() on the context in audioContextRef.  voices' is what still
\* sounds when close() is called.
unmount ==
    /\ ~unmounted
    /\ unmounted' = TRUE
    /\ voices' = IF instrumentRef # NoInstrument /\ hasReleaseAll(instrumentRef)
                 THEN releaseAll(voices) ELSE voices
    /\ UNCHANGED <<isEnabled, isLoading, error, currentInstrumentId, audioContextRef,
                   contexts, instrumentRef, activeNotesRef, calls, lastSwitch>>
    /\ UNCHANGED <<midiVars, levelVars, appVars, wsVars>>

AudioNext ==
    \/ enable_call
    \/ \E c \in Suspended : enable_started(c)
    \/ \E c \in Suspended : enable_failed(c)
    \/ \E c \in Suspended : enable_loaded(c)
    \/ \E c \in Suspended : enable_fallback(c)
    \/ \E id \in InstrumentIds : setInstrument_call(id)
    \/ \E c \in Suspended : setInstrument_loaded(c)
    \/ \E c \in Suspended : setInstrument_failed(c)
    \/ \E n \in Notes, v \in Velocities : playNote_call(n, v)
    \/ \E n \in Notes : stopNote_call(n)

-----------------------------------------------------------------------------
\* useMidi

\* The host's MIDI inputs, WebMidi.inputs once WebMidi is enabled, in port order
Devices == {1, 2}

\* State after useMidi() is constructed
MidiInit ==
    /\ midiEnabled = FALSE
    /\ isConnecting = FALSE
    /\ midiError = "null"
    /\ inputs = {}
    /\ selectedInput = 0
    /\ activeNotes = <<>>
    /\ webMidi = [enabled |-> FALSE,
                  listeners |-> [d \in Devices |-> [cur |-> 0, old |-> 0]],
                  ports |-> Devices, hooked |-> FALSE]
    /\ connecting = 0
    /\ boundHeld = {}
    /\ lastOp = "none"
    /\ snapshot = [fresh |-> TRUE, intact |-> TRUE]

\* WebMidi.inputs
WebMidiInputs == IF webMidi.enabled THEN webMidi.ports ELSE {}

\* The note listeners of an input are handleNoteOn/handleNoteOff pairs.  Both are
\* useCallback([callbacks]) and the App passes a fresh callbacks object on every
\* render, so every render makes a new pair: cur counts the attached pairs that
\* are the current render's, old those of earlier renders.
input_addListener(ls, d) == [ls EXCEPT ![d].cur = @ + 1]

\* Input.removeListener(event, handler) with the current render's handler:
\* only listeners that are this very function are removed
input_removeListener(ls, d) == [ls EXCEPT ![d].cur = 0]

\* A state setter ran: the component renders again before the next event, and
\* the attached handlers are no longer the current render's.
Rerender(ls) == [d \in Devices |-> [cur |-> 0, old |-> ls[d].cur + ls[d].old]]

\* How many handleNoteOn (or handleNoteOff) listeners an event of input d runs
Attached(d) == webMidi.listeners[d].cur + webMidi.listeners[d].old

\* next = new Set(prev); next.add(note)
SetAdd(set, note) ==
    IF \E i \in 1..Len(set) : set[i] = note THEN set ELSE Append(set, note)

\* handleNoteOff returning prev without deleting the note
SetDelete_keeps(set, note) == set

\* next = new Set(prev); next.delete(note)
SetDelete(set, note) == SelectSeq(set, LAMBDA x : x # note)

Elements(set) == {set[i] : i \in 1..Len(set)}

\* The updaters given to setActiveNotes, on the Set object prev: what prev holds
\* afterwards, what the returned object holds, and whether that is a new object.
\* prev.add(note) on the published Set itself, returned as the next state
handleNoteOn_inPlace(prev, note) ==
    [prev |-> SetAdd(prev, note), next |-> SetAdd(prev, note), fresh |-> FALSE]

\* prev => { next = new Set(prev); next.add(note); return next }
handleNoteOn_updater(prev, note) ==
    [prev |-> prev, next |-> SetAdd(prev, note), fresh |-> TRUE]

\* prev => { next = new Set(prev); next.delete(note); return next }
handleNoteOff_updater(prev, note) ==
    [prev |-> prev, next |-> SetDelete(prev, note), fresh |-> TRUE]

\* setActiveNotes(new Set())
clearActiveNotes(prev) == [prev |-> prev, next |-> <<>>, fresh |-> TRUE]

\* What an update did to the Set that was published before it
Published(before, update) == [fresh |-> update.fresh, intact |-> update.prev = before]

\* connect(): up to `await WebMidi.enable()`
connect_call ==
    /\ connecting < MaxCalls
    /\ isConnecting' = TRUE
    /\ midiError' = "null"
    /\ connecting' = connecting + 1
    /\ webMidi' = [webMidi EXCEPT !.listeners = Rerender(@)]
    /\ lastOp' = "connect"
    /\ UNCHANGED <<midiEnabled, inputs, selectedInput, activeNotes, boundHeld, snapshot>>
    /\ UNCHANGED <<audioVars, levelVars, unmounted, appVars, wsVars>>

\* connect(): WebMidi.enable() resolved; the first input is selected and the
\* handlers of the render that called connect() are attached to it.
connect_enabled ==
    /\ connecting > 0
    /\ midiEnabled' = TRUE
    /\ inputs' = webMidi.ports
    /\ IF webMidi.ports # {}
       THEN LET firstInput == CHOOSE d \in webMidi.ports : \A e \in webMidi.ports : d <= e
            IN /\ Attached(firstInput) < MaxListeners
               /\ selectedInput' = firstInput
               /\ webMidi' = [webMidi EXCEPT
                                 !.enabled = TRUE, !.hooked = TRUE,
                                 !.listeners = Rerender(input_addListener(@, firstInput))]
       ELSE /\ selectedInput' = selectedInput
            /\ webMidi' = [webMidi EXCEPT !.enabled = TRUE, !.hooked = TRUE,
                                          !.listeners = Rerender(@)]
    /\ isConnecting' = FALSE
    /\ connecting' = connecting - 1
    /\ lastOp' = "connect"
    /\ UNCHANGED <<midiError, activeNotes, boundHeld, snapshot>>
    /\ UNCHANGED <<audioVars, levelVars, unmounted, appVars, wsVars>>

\* connect() swallowing the rejection: no error is set
connect_failed_silent ==
    /\ connecting > 0
    /\ isConnecting' = FALSE
    /\ connecting' = connecting - 1
    /\ webMidi' = [webMidi EXCEPT !.listeners = Rerender(@)]
    /\ lastOp' = "connect failed"
    /\ UNCHANGED <<midiEnabled, midiError, inputs, selectedInput, activeNotes, boundHeld,
                   snapshot>>
    /\ UNCHANGED <<audioVars, levelVars, unmounted, appVars, wsVars>>

\* connect(): WebMidi.enable() rejected
connect_failed ==
    /\ connecting > 0
    /\ midiError' = "Failed to enable MIDI"
    /\ isConnecting' = FALSE
    /\ connecting' = connecting - 1
    /\ webMidi' = [webMidi EXCEPT !.listeners = Rerender(@)]
    /\ lastOp' = "connect failed"
    /\ UNCHANGED <<midiEnabled, inputs, selectedInput, activeNotes, boundHeld, snapshot>>
    /\ UNCHANGED <<audioVars, levelVars, unmounted, appVars, wsVars>>

\* selectInput(inputId)
selectInput(inputId) ==
    LET removed == IF selectedInput # 0
                   THEN input_removeListener(webMidi.listeners, selectedInput)
                   ELSE webMidi.listeners
        found == inputId \in WebMidiInputs
    IN /\ found => Attached(inputId) < MaxListeners
       /\ activeNotes' = clearActiveNotes(activeNotes).next
       /\ snapshot' = Published(activeNotes, clearActiveNotes(activeNotes))
       /\ selectedInput' = IF found THEN inputId ELSE 0
       /\ webMidi' = [webMidi EXCEPT !.listeners =
                         Rerender(IF found THEN input_addListener(removed, inputId)
                                  ELSE removed)]
       /\ boundHeld' = {}
       /\ lastOp' = "selectInput"
       /\ UNCHANGED <<midiEnabled, isConnecting, midiError, inputs, connecting>>
       /\ UNCHANGED <<audioVars, levelVars, unmounted, appVars, wsVars>>

\* disconnect() with WebMidi.disable() leaving the inputs' listeners attached
disconnect_keepsListeners ==
    /\ activeNotes' = clearActiveNotes(activeNotes).next
    /\ snapshot' = Published(activeNotes, clearActiveNotes(activeNotes))
    /\ selectedInput' = 0
    /\ webMidi' = [webMidi EXCEPT !.listeners = Rerender(@)]
    /\ midiEnabled' = FALSE
    /\ inputs' = {}
    /\ boundHeld' = {}
    /\ lastOp' = "disconnect"
    /\ UNCHANGED <<isConnecting, midiError, connecting>>
    /\ UNCHANGED <<audioVars, levelVars, unmounted, appVars, wsVars>>

\* disconnect(): WebMidi.disable() destroys the inputs with all their listeners
\* and removes the listeners of WebMidi itself
disconnect ==
    /\ activeNotes' = clearActiveNotes(activeNotes).next
    /\ snapshot' = Published(activeNotes, clearActiveNotes(activeNotes))
    /\ selectedInput' = 0
    /\ webMidi' = [enabled |-> FALSE,
                   listeners |-> [d \in Devices |-> [cur |-> 0, old |-> 0]],
                   ports |-> webMidi.ports, hooked |-> FALSE]
    /\ midiEnabled' = FALSE
    /\ inputs' = {}
    /\ boundHeld' = {}
    /\ lastOp' = "disconnect"
    /\ UNCHANGED <<isConnecting, midiError, connecting>>
    /\ UNCHANGED <<audioVars, levelVars, unmounted, appVars, wsVars>>

\* f applied k times to st
RECURSIVE Times(_, _, _)
Times(k, f(_), st) == IF k = 0 THEN st ELSE Times(k - 1, f, f(st))

\* Input d delivers noteon: every attached handleNoteOn adds the note to
\* activeNotes and calls callbacks.onNoteOn, the App's audio.playNote.
noteon(d, note, velocity) ==
    LET k == Attached(d)
        st == Times(k, LAMBDA a : playNote(a, instrumentRef, note, velocity),
                    [voices |-> voices, activeNotesRef |-> activeNotesRef,
                     lastStart |-> lastStart])
        update == handleNoteOn_updater(activeNotes, note)
    IN /\ d \in webMidi.ports
       /\ BagCardinality(st.voices) <= MaxVoices
       /\ activeNotes' = IF k > 0 THEN update.next ELSE activeNotes
       /\ snapshot' = IF k > 0 THEN Published(activeNotes, update) ELSE snapshot
       /\ voices' = st.voices
       /\ activeNotesRef' = st.activeNotesRef
       /\ lastStart' = st.lastStart
       /\ UNCHANGED <<volume, unmounted, appVars, wsVars>>
       /\ webMidi' = IF k > 0 THEN [webMidi EXCEPT !.listeners = Rerender(@)] ELSE webMidi
       /\ boundHeld' = IF d = selectedInput THEN boundHeld \cup {note} ELSE boundHeld
       /\ lastOp' = "noteon"
       /\ UNCHANGED <<midiEnabled, isConnecting, midiError, inputs, selectedInput,
                      connecting>>
       /\ UNCHANGED <<isEnabled, isLoading, error, currentInstrumentId, audioContextRef,
                      contexts, instrumentRef, calls, lastSwitch>>

\* Input d delivers noteoff: every attached handleNoteOff deletes the note from
\* activeNotes and calls callbacks.onNoteOff, the App's audio.stopNote.
noteoff(d, note) ==
    LET k == Attached(d)
        st == Times(k, LAMBDA a : stopNote(a, instrumentRef, note),
                    [voices |-> voices, activeNotesRef |-> activeNotesRef])
        update == handleNoteOff_updater(activeNotes, note)
    IN /\ d \in webMidi.ports
       /\ activeNotes' = IF k > 0 THEN update.next ELSE activeNotes
       /\ snapshot' = IF k > 0 THEN Published(activeNotes, update) ELSE snapshot
       /\ voices' = st.voices
       /\ activeNotesRef' = st.activeNotesRef
       /\ UNCHANGED <<levelVars, unmounted, appVars, wsVars>>
       /\ webMidi' = IF k > 0 THEN [webMidi EXCEPT !.listeners = Rerender(@)] ELSE webMidi
       /\ boundHeld' = IF d = selectedInput THEN boundHeld \ {note} ELSE boundHeld
       /\ lastOp' = "noteoff"
       /\ UNCHANGED <<midiEnabled, isConnecting, midiError, inputs, selectedInput,
                      connecting>>
       /\ UNCHANGED <<isEnabled, isLoading, error, currentInstrumentId, audioContextRef,
                      contexts, instrumentRef, calls, lastSwitch>>

\* The host reports a new port: WebMidi.inputs gets an Input for it and, when
\* connect() hooked the event, setInputs([...WebMidi.inputs]) runs
host_connected(d) ==
    /\ d \notin webMidi.ports
    /\ webMidi' = [webMidi EXCEPT !.ports = @ \cup {d},
                                  !.listeners = IF webMidi.hooked THEN Rerender(@) ELSE @]
    /\ inputs' = IF webMidi.hooked THEN webMidi.ports \cup {d} ELSE inputs
    /\ lastOp' = "host connected"
    /\ UNCHANGED <<midiEnabled, isConnecting, midiError, selectedInput, activeNotes,
                   connecting, boundHeld, snapshot>>
    /\ UNCHANGED <<audioVars, levelVars, unmounted, appVars, wsVars>>

\* A host port event that also drops the registry
host_disconnected_clears(d, kept) ==
    /\ d \in webMidi.ports
    /\ webMidi' = [webMidi EXCEPT !.ports = @ \ {d}]
    /\ inputs' = IF webMidi.hooked THEN webMidi.ports \ {d} ELSE inputs
    /\ activeNotes' = <<>>
    /\ lastOp' = "host disconnected"
    /\ UNCHANGED <<midiEnabled, isConnecting, midiError, selectedInput,
                   connecting, boundHeld, snapshot>>
    /\ UNCHANGED <<audioVars, levelVars, unmounted, appVars, wsVars>>

\* The host reports that a port went away: WebMidi.inputs loses it; its Input
\* object keeps its listeners for a later return of the port (kept) or loses them,
\* depending on the webmidi version.  When connect() hooked the event,
\* setInputs([...WebMidi.inputs]) runs.
host_disconnected(d, kept) ==
    /\ d \in webMidi.ports
    /\ LET ls == IF kept THEN webMidi.listeners
                 ELSE [webMidi.listeners EXCEPT ![d] = [cur |-> 0, old |-> 0]]
       IN webMidi' = [webMidi EXCEPT !.ports = @ \ {d},
                                     !.listeners = IF webMidi.hooked THEN Rerender(ls)
                                                   ELSE ls]
    /\ inputs' = IF webMidi.hooked THEN webMidi.ports \ {d} ELSE inputs
    /\ lastOp' = "host disconnected"
    /\ UNCHANGED <<midiEnabled, isConnecting, midiError, selectedInput, activeNotes,
                   connecting, boundHeld, snapshot>>
    /\ UNCHANGED <<audioVars, levelVars, unmounted, appVars, wsVars>>

MidiNext ==
    \/ connect_call
    \/ connect_enabled
    \/ connect_failed
    \/ \E id \in Devices \cup {3} : selectInput(id)
    \/ disconnect
    \/ \E d \in Devices, n \in Notes, v \in Velocities : noteon(d, n, v)
    \/ \E d \in Devices, n \in Notes : noteoff(d, n)

-----------------------------------------------------------------------------
\* Chord detection (src/unnamed/part_004) and the tonal matcher it calls

\* C4, Eb4, E4, G4, Bb4, C5
ChordNotes == {60, 63, 64, 67, 70, 72}

\* Note.fromMidi spells pitch classes with flats
PcNames == <<"C", "Db", "D", "Eb", "E", "F", "Gb", "G", "Ab", "A", "Bb", "B">>

OctNames == <<"-1", "0", "1", "2", "3", "4", "5", "6", "7", "8", "9">>

\* The chroma (0..11) of a pitch-class name
Chroma(pc) == CHOOSE i \in 0..11 : PcNames[i + 1] = pc

\* midiToNote(midi) = Note.fromMidi(midi): the name with its octave, "C4" for 60
midiToNote(midi) == [pc |-> PcNames[(midi % 12) + 1], oct |-> OctNames[(midi \div 12) + 1]]

\* Note.pitchClass(name): the name without its octave
Note_pitchClass(n) == [pc |-> n.pc, oct |-> ""]

midiToPitchClass(midi) == midi % 12

\* The elements of a set of numbers in ascending order
RECURSIVE Ascending(_)
Ascending(S) ==
    IF S = {} THEN <<>>
    ELSE LET m == CHOOSE x \in S : \A y \in S : x <= y
         IN <<m>> \o Ascending(S \ {m})

\* getPitchClasses(midiNotes): the distinct pitch classes, sorted
getPitchClasses(midiNotes) ==
    Ascending({midiToPitchClass(midiNotes[i]) : i \in 1..Len(midiNotes)})

\* tonal's chord dictionary, the types the notes of ChordNotes spell: [intervals
\* as semitones above the root, name, first alias, quality], in the dictionary's
\* order (ascending set number).  The quality is tonal's: Augmented with an
\* augmented fifth, else Major with a major third, else Diminished with a
\* diminished fifth, else Minor with a minor third, else Unknown.
ChordTypes ==
    << [chroma |-> {0, 7},        name |-> "fifth",            alias |-> "5",
        quality |-> "Unknown"],
       [chroma |-> {0, 4, 8},     name |-> "augmented",        alias |-> "aug",
        quality |-> "Augmented"],
       [chroma |-> {0, 4, 7},     name |-> "major",            alias |-> "M",
        quality |-> "Major"],
       [chroma |-> {0, 4, 7, 10}, name |-> "dominant seventh", alias |-> "7",
        quality |-> "Major"],
       [chroma |-> {0, 4, 7, 9},  name |-> "sixth",            alias |-> "6",
        quality |-> "Major"],
       [chroma |-> {0, 3, 8},     name |-> "minor augmented",  alias |-> "m#5",
        quality |-> "Augmented"],
       [chroma |-> {0, 3, 7},     name |-> "minor",            alias |-> "m",
        quality |-> "Minor"],
       [chroma |-> {0, 3, 7, 10}, name |-> "minor seventh",    alias |-> "m7",
        quality |-> "Minor"],
       [chroma |-> {0, 3, 6},     name |-> "diminished",       alias |-> "dim",
        quality |-> "Diminished"] >>

\* chordType.chroma === mode: the type's pitch-class set is the notes' set as
\* seen from the candidate root
TypeMatches(type, mode) == type.chroma = mode

\* tonal Chord.detect(source): the names of the chords whose pitch-class set is
\* exactly that of source, for every root in chroma order; a root that is not the
\* first note of source makes a slash chord over it with half the weight, and
\* the names are sorted by weight (stably).
Chord_detect(source) ==
    IF Len(source) = 0 THEN <<>>
    ELSE
    LET tonic == source[1].pc
        tonicChroma == Chroma(tonic)
        pcset == {Chroma(source[i].pc) : i \in 1..Len(source)}
        mode(i) == {(p - i + 12) % 12 : p \in pcset}
        entry(i, t) ==
            IF i # tonicChroma
            THEN [weight |-> 1, name |-> [tonic |-> PcNames[i + 1], alias |-> ChordTypes[t].alias,
                                          bass |-> tonic]]
            ELSE [weight |-> 2, name |-> [tonic |-> PcNames[i + 1], alias |-> ChordTypes[t].alias,
                                          bass |-> ""]]
        RECURSIVE foundTypes(_, _)
        foundTypes(i, t) ==
            IF t > Len(ChordTypes) THEN <<>>
            ELSE (IF TypeMatches(ChordTypes[t], mode(i)) THEN <<entry(i, t)>> ELSE <<>>)
                 \o foundTypes(i, t + 1)
        RECURSIVE found(_)
        found(i) == IF i > 11 THEN <<>> ELSE foundTypes(i, 1) \o found(i + 1)
        sorted == SelectSeq(found(0), LAMBDA e : e.weight = 2)
                  \o SelectSeq(found(0), LAMBDA e : e.weight = 1)
    IN [k \in 1..Len(sorted) |-> sorted[k].name]

\* Chord.get resolving no name: every chordInfo is empty
Chord_get_empty(chordName) ==
    [empty |-> TRUE, tonic |-> "", type |-> "", quality |-> "Unknown"]

\* tonal Chord.get(name): the chord of a name Chord.detect made: its tonic, the
\* name and the quality of its type; empty when the type is unknown.
Chord_get(chordName) ==
    IF \E t \in 1..Len(ChordTypes) : ChordTypes[t].alias = chordName.alias
    THEN LET t == CHOOSE t \in 1..Len(ChordTypes) : ChordTypes[t].alias = chordName.alias
         IN [empty |-> FALSE, tonic |-> chordName.tonic, type |-> ChordTypes[t].name,
             quality |-> ChordTypes[t].quality]
    ELSE [empty |-> TRUE, tonic |-> "", type |-> "", quality |-> "Unknown"]

\* type.toLowerCase(), on the tags that occur
toLowerCase(t) ==
    CASE t = "Major" -> "major"
      [] t = "Minor" -> "minor"
      [] t = "Augmented" -> "augmented"
      [] t = "Diminished" -> "diminished"
      [] t = "Unknown" -> "unknown"
      [] OTHER -> t

\* The characters of the strings getChordQuality compares
Chars(t) ==
    CASE t = "major" -> <<"m", "a", "j", "o", "r">>
      [] t = "minor" -> <<"m", "i", "n", "o", "r">>
      [] t = "augmented" -> <<"a", "u", "g", "m", "e", "n", "t", "e", "d">>
      [] t = "diminished" -> <<"d", "i", "m", "i", "n", "i", "s", "h", "e", "d">>
      [] t = "unknown" -> <<"u", "n", "k", "n", "o", "w", "n">>
      [] t = "fifth" -> <<"f", "i", "f", "t", "h">>
      [] t = "minor augmented" -> <<"m", "i", "n", "o", "r", " ", "a", "u", "g", "m", "e",
                                    "n", "t", "e", "d">>
      [] t = "maj" -> <<"m", "a", "j">>
      [] t = "min" -> <<"m", "i", "n">>
      [] t = "dim" -> <<"d", "i", "m">>
      [] t = "aug" -> <<"a", "u", "g">>
      [] t = "dom" -> <<"d", "o", "m">>
      [] t = "7" -> <<"7">>
      [] t = "m" -> <<"m">>
      [] t = "M" -> <<"M">>
      [] OTHER -> <<>>

\* String.prototype.includes
includes(t, sub) ==
    \E i \in 0..(Len(Chars(t)) - Len(Chars(sub))) :
        SubSeq(Chars(t), i + 1, i + Len(Chars(sub))) = Chars(sub)

getChordQuality(type) ==
    LET t == toLowerCase(type)
    IN IF includes(t, "maj") \/ t = "M" \/ t = "" THEN "major"
       ELSE IF includes(t, "min") \/ t = "m" THEN "minor"
       ELSE IF includes(t, "dim") THEN "diminished"
       ELSE IF includes(t, "aug") THEN "augmented"
       ELSE IF includes(t, "dom") \/ includes(t, "7") THEN "dominant"
       ELSE "other"

\* detectChord's null
NoChord == [name |-> [tonic |-> "", alias |-> "", bass |-> ""], root |-> "", type |-> "",
            notes |-> <<>>, quality |-> "none"]

\* The DetectedChord detectChord builds from a detected name (symbol is the name)
Candidate(chordName, chordInfo, rootDefault, noteNames) ==
    [name |-> chordName,
     root |-> IF chordInfo.tonic # "" THEN chordInfo.tonic ELSE rootDefault,
     type |-> chordInfo.type,
     notes |-> [i \in 1..Len(noteNames) |-> noteNames[i].pc],
     quality |-> getChordQuality(IF chordInfo.quality # "" THEN chordInfo.quality
                                 ELSE chordInfo.type)]

\* A candidate that names no chord, only the bass note
NotesOnly(noteSet) ==
    IF Len(noteSet) = 0 THEN NoChord
    ELSE LET bass == midiToNote(Ascending({noteSet[i] : i \in 1..Len(noteSet)})[1])
         IN [name |-> [tonic |-> bass.pc, alias |-> "", bass |-> ""], root |-> bass.pc,
             type |-> "", notes |-> <<bass.pc>>, quality |-> "other"]

\* detectChord with its last `return null` returning the bass note as a chord
detectChord_notesOnly(noteSet) ==
    LET noteNames == [i \in 1..Len(noteSet) |-> midiToNote(noteSet[i])]
        detected == Chord_detect(noteNames)
    IN IF Len(noteSet) < 2 THEN NoChord
       ELSE IF Len(detected) > 0 /\ ~Chord_get(detected[1]).empty
       THEN Candidate(detected[1], Chord_get(detected[1]), "", noteNames)
       ELSE NotesOnly(noteSet)

\* detectChord(activeNotes): noteSet is the Set's elements in insertion order
detectChord(noteSet) ==
    LET notes == noteSet
        noteNames == [i \in 1..Len(notes) |-> midiToNote(notes[i])]
        sortedNotes == Ascending({notes[i] : i \in 1..Len(notes)})
        bassNote == midiToNote(sortedNotes[1])
        detected == Chord_detect(noteNames)
        pitchClassNotes == LET pcs == getPitchClasses(notes)
                           IN [i \in 1..Len(pcs) |-> Note_pitchClass(midiToNote(pcs[i]))]
        fallbackDetected == Chord_detect(pitchClassNotes)
    IN IF Len(notes) < 2 THEN NoChord
       ELSE IF Len(noteNames) < 2 THEN NoChord
       ELSE IF Len(detected) > 0
       THEN LET chordName == detected[1]
                chordInfo == Chord_get(chordName)
            IN IF chordInfo.empty THEN NoChord
               ELSE Candidate(chordName, chordInfo, bassNote.pc, noteNames)
       ELSE IF Len(fallbackDetected) > 0 /\ ~Chord_get(fallbackDetected[1]).empty
       THEN Candidate(fallbackDetected[1], Chord_get(fallbackDetected[1]), "", noteNames)
       ELSE NoChord

\* The App's detectedChord: useMemo(() => detectChord(midi.activeNotes))
detectedChord == detectChord(activeNotes)

\* useMidi after connect() bound the first input, before any note
MidiConnected ==
    /\ midiEnabled = TRUE
    /\ isConnecting = FALSE
    /\ midiError = "null"
    /\ inputs = Devices
    /\ selectedInput = 1
    /\ activeNotes = <<>>
    /\ webMidi = [enabled |-> TRUE,
                  listeners |-> [d \in Devices |->
                                    [cur |-> 0, old |-> IF d = 1 THEN 1 ELSE 0]],
                  ports |-> Devices, hooked |-> TRUE]
    /\ connecting = 0
    /\ boundHeld = {}
    /\ lastOp = "connect"
    /\ snapshot = [fresh |-> TRUE, intact |-> TRUE]

\* Keys of the bound input go down and up
ChordNext ==
    \/ \E n \in ChordNotes, v \in Velocities : noteon(1, n, v)
    \/ \E n \in ChordNotes : noteoff(1, n)

-----------------------------------------------------------------------------
\* AppContent: the settings and the two effects that sync them to the engine

\* Volumes of the settings slider
SliderVolumes == {50, 100}

\* loadSettings() without stored settings
AppInit ==
    /\ settings = [instrumentId |-> DEFAULT_INSTRUMENT_ID, volume |-> DEFAULT_VOLUME]
    /\ effectDeps = [instrument |-> <<FALSE, DEFAULT_INSTRUMENT_ID, DEFAULT_INSTRUMENT_ID>>,
                     volume |-> <<FALSE, DEFAULT_VOLUME>>]

\* The dependency values of the instrument sync effect and of the volume sync
\* effect (audio.setInstrument and audio.setVolume never change identity)
InstrumentDeps == <<isEnabled, settings.instrumentId, currentInstrumentId>>
VolumeDeps == <<isEnabled, settings.volume>>

\* loadSettings() with or without stored settings; the effects ran at mount
AppLoaded ==
    /\ settings \in [instrumentId : InstrumentIds, volume : {DEFAULT_VOLUME} \cup SliderVolumes]
    /\ effectDeps = [instrument |-> InstrumentDeps, volume |-> VolumeDeps]

\* A sync effect whose dependencies changed since it last ran is due
InstrumentEffectPending == effectDeps.instrument # InstrumentDeps
VolumeEffectPending == effectDeps.volume # VolumeDeps
EffectPending == InstrumentEffectPending \/ VolumeEffectPending

\* handleInstrumentChange(instrumentId): setSettings, then audio.setInstrument
handleInstrumentChange(instrumentId) ==
    /\ settings' = [settings EXCEPT !.instrumentId = instrumentId]
    /\ setInstrument_audio(instrumentId)
    /\ UNCHANGED <<effectDeps, levelVars, unmounted, midiVars, wsVars>>

\* handleVolumeChange(volume): setSettings, then audio.setVolume
handleVolumeChange(newVolume) ==
    /\ settings' = [settings EXCEPT !.volume = newVolume]
    /\ setVolume_audio(newVolume)
    /\ UNCHANGED <<effectDeps, unmounted, midiVars, wsVars>>

\* The instrument sync effect, run after a render that changed its dependencies
instrumentSyncEffect ==
    /\ InstrumentEffectPending
    /\ effectDeps' = [effectDeps EXCEPT !.instrument = InstrumentDeps]
    /\ IF isEnabled /\ settings.instrumentId # currentInstrumentId
       THEN setInstrument_audio(settings.instrumentId)
       ELSE UNCHANGED audioVars
    /\ UNCHANGED <<settings, levelVars, unmounted, midiVars, wsVars>>

\* The volume sync effect, declared after the instrument sync effect
volumeSyncEffect ==
    /\ VolumeEffectPending
    /\ ~InstrumentEffectPending
    /\ effectDeps' = [effectDeps EXCEPT !.volume = VolumeDeps]
    /\ IF isEnabled
       THEN setVolume_audio(settings.volume)
       ELSE UNCHANGED <<audioVars, levelVars>>
    /\ UNCHANGED <<settings, unmounted, midiVars, wsVars>>

-----------------------------------------------------------------------------
\* WebSocketProvider

maxReconnectAttempts == 10

\* clientCount values the server reports
ClientCounts == {1, 2}

\* State after WebSocketProvider is constructed, before its mount effect
WebSocketInit ==
    /\ isConnected = FALSE
    /\ clientCount = 0
    /\ wsRef = "null"
    /\ reconnectAttemptsRef = 0
    /\ reconnectTimeoutRef = "null"
    /\ wsMounted = "constructed"
    /\ closing = 0
    /\ scheduled = 0

\* connect(): nothing when the socket in wsRef is OPEN, else a new WebSocket,
\* CONNECTING, is stored in wsRef
ws_connect(ref) == IF ref = "open" THEN ref ELSE "connecting"

\* The mount effect: connect()
ws_mount ==
    /\ wsMounted = "constructed"
    /\ wsMounted' = "mounted"
    /\ wsRef' = ws_connect(wsRef)
    /\ UNCHANGED <<isConnected, clientCount, reconnectAttemptsRef, reconnectTimeoutRef,
                   closing, scheduled>>
    /\ UNCHANGED <<audioVars, levelVars, unmounted, midiVars, appVars>>

\* The reconnect timer fires: connect()
ws_timer ==
    /\ reconnectTimeoutRef = "pending"
    /\ reconnectTimeoutRef' = "fired"
    /\ wsRef' = ws_connect(wsRef)
    /\ UNCHANGED <<isConnected, clientCount, reconnectAttemptsRef, wsMounted, closing,
                   scheduled>>
    /\ UNCHANGED <<audioVars, levelVars, unmounted, midiVars, appVars>>

\* ws.onopen
ws_onopen ==
    /\ wsRef = "connecting"
    /\ wsRef' = "open"
    /\ isConnected' = TRUE
    /\ reconnectAttemptsRef' = 0
    /\ scheduled' = 0
    /\ UNCHANGED <<clientCount, reconnectTimeoutRef, wsMounted, closing>>
    /\ UNCHANGED <<audioVars, levelVars, unmounted, midiVars, appVars>>

\* ws.onmessage with a clientCount in the message
ws_onmessage(count) ==
    /\ wsRef = "open"
    /\ clientCount' = count
    /\ UNCHANGED <<isConnected, wsRef, reconnectAttemptsRef, reconnectTimeoutRef,
                   wsMounted, closing, scheduled>>
    /\ UNCHANGED <<audioVars, levelVars, unmounted, midiVars, appVars>>

\* ws.onclose with `<=` for `<` in its test of the attempt counter
ws_onclose_oneMore(stray) ==
    /\ IF stray THEN closing > 0 /\ closing' = closing - 1
                ELSE wsRef # "null" /\ closing' = closing
    /\ isConnected' = FALSE
    /\ wsRef' = "null"
    /\ IF reconnectAttemptsRef <= maxReconnectAttempts
       THEN /\ reconnectAttemptsRef' = reconnectAttemptsRef + 1
            /\ reconnectTimeoutRef' = "pending"
            /\ scheduled' = scheduled + 1
       ELSE UNCHANGED <<reconnectAttemptsRef, reconnectTimeoutRef, scheduled>>
    /\ UNCHANGED <<clientCount, wsMounted>>
    /\ UNCHANGED <<audioVars, levelVars, unmounted, midiVars, appVars>>

\* ws.onclose of the socket in wsRef, or (stray) of a socket the cleanup closed
ws_onclose(stray) ==
    /\ IF stray THEN closing > 0 /\ closing' = closing - 1
                ELSE wsRef # "null" /\ closing' = closing
    /\ isConnected' = FALSE
    /\ wsRef' = "null"
    /\ IF reconnectAttemptsRef < maxReconnectAttempts
       THEN /\ reconnectAttemptsRef' = reconnectAttemptsRef + 1
            /\ reconnectTimeoutRef' = "pending"
            /\ scheduled' = scheduled + 1
       ELSE UNCHANGED <<reconnectAttemptsRef, reconnectTimeoutRef, scheduled>>
    /\ UNCHANGED <<clientCount, wsMounted>>
    /\ UNCHANGED <<audioVars, levelVars, unmounted, midiVars, appVars>>

\* The cleanup of the mount effect: clearTimeout, then close() and wsRef = null
ws_unmount ==
    /\ wsMounted = "mounted"
    /\ wsMounted' = "unmounted"
    /\ reconnectTimeoutRef' = IF reconnectTimeoutRef = "pending" THEN "cleared"
                              ELSE reconnectTimeoutRef
    /\ closing' = IF wsRef # "null" THEN closing + 1 ELSE closing
    /\ wsRef' = "null"
    /\ UNCHANGED <<isConnected, clientCount, reconnectAttemptsRef, scheduled>>
    /\ UNCHANGED <<audioVars, levelVars, unmounted, midiVars, appVars>>

WebSocketNext ==
    \/ ws_mount
    \/ ws_timer
    \/ ws_onopen
    \/ \E count \in ClientCounts : ws_onmessage(count)
    \/ \E stray \in BOOLEAN : ws_onclose(stray)
    \/ ws_unmount

\* The audio engine as enable() leaves it: not called, the default piano loaded,
\* or the organ fallback
AudioAfterEnable ==
    /\ isLoading = FALSE
    /\ error = "null"
    /\ activeNotesRef = <<>>
    /\ voices = EmptyBag
    /\ calls = EmptyBag
    /\ lastSwitch = [id |-> "none", overlapped |-> FALSE, status |-> "none", tick |-> FALSE]
    /\ volume = DEFAULT_VOLUME
    /\ lastStart = NoStart
    /\ unmounted = FALSE
    /\ \/ /\ isEnabled = FALSE /\ audioContextRef = 0 /\ contexts = 0
          /\ instrumentRef = NoInstrument
          /\ currentInstrumentId = DEFAULT_INSTRUMENT_ID
       \/ /\ isEnabled = TRUE /\ audioContextRef = 1 /\ contexts = 1
          /\ instrumentRef = loadSampledInstrument(DEFAULT_INSTRUMENT_ID)
          /\ currentInstrumentId = DEFAULT_INSTRUMENT_ID
       \/ /\ isEnabled = TRUE /\ audioContextRef = 1 /\ contexts = 1
          /\ instrumentRef = createSynth("organ")
          /\ currentInstrumentId = "organ"

InitAudio == AudioInit /\ MidiInit /\ AppInit /\ WebSocketInit

InitMidi == AudioAfterEnable /\ MidiInit /\ AppInit /\ WebSocketInit

SpecAudio == InitAudio /\ [][AudioNext]_vars

InitChord == AudioInit /\ MidiConnected /\ AppInit /\ WebSocketInit

SpecMidi == InitMidi /\ [][MidiNext]_vars

SpecChord == InitChord /\ [][ChordNext]_vars

\* useMidi with ports coming and going, the audio engine not enabled
HotplugNext ==
    \/ connect_call
    \/ connect_enabled
    \/ \E id \in Devices : selectInput(id)
    \/ disconnect
    \/ \E d \in Devices, n \in Notes : noteon(d, n, 127)
    \/ \E d \in Devices, n \in Notes : noteoff(d, n)
    \/ \E d \in Devices : host_connected(d)
    \/ \E d \in Devices, kept \in BOOLEAN : host_disconnected(d, kept)

InitHotplug == AudioInit /\ MidiInit /\ AppInit /\ WebSocketInit

SpecHotplug == InitHotplug /\ [][HotplugNext]_vars

\* The engine's life cycle alone: enable() and instrument switches, no notes
LifecycleNext ==
    \/ enable_call
    \/ \E c \in Suspended : enable_started(c)
    \/ \E c \in Suspended : enable_failed(c)
    \/ \E c \in Suspended : enable_loaded(c)
    \/ \E c \in Suspended : enable_fallback(c)
    \/ \E id \in InstrumentIds : setInstrument_call(id)
    \/ \E c \in Suspended : setInstrument_loaded(c)
    \/ \E c \in Suspended : setInstrument_failed(c)

InitLifecycle == AudioInit /\ MidiInit /\ AppInit /\ WebSocketInit

SpecLifecycle == InitLifecycle /\ [][LifecycleNext]_vars

\* Velocities 0..127 and volumes of the 0..100 slider
MidiVelocities == 0..127
Volumes == {0, 50, 100}

\* Notes played and the volume moved on an enabled engine
LevelsNext ==
    \/ \E v \in Volumes : setVolume_call(v)
    \/ \E velocity \in MidiVelocities : playNote_call(60, velocity)
    \/ stopNote_call(60)

InitLevels == AudioAfterEnable /\ MidiInit /\ AppInit /\ WebSocketInit

SpecLevels == InitLevels /\ [][LevelsNext]_vars

\* Notes started and stopped on an enabled engine whose instrument is switched
VoicesNext ==
    \/ \E n \in Notes : playNote_call(n, 127)
    \/ \E n \in Notes : stopNote_call(n)
    \/ \E id \in InstrumentIds : setInstrument_call(id)
    \/ \E c \in Suspended : setInstrument_loaded(c)
    \/ \E c \in Suspended : setInstrument_failed(c)

InitVoices == AudioAfterEnable /\ MidiInit /\ AppInit /\ WebSocketInit

SpecVoices == InitVoices /\ [][VoicesNext]_vars

\* The engine from construction on: enable(), instrument switches and one key
StartupNext ==
    \/ enable_call
    \/ \E c \in Suspended : enable_started(c)
    \/ \E c \in Suspended : enable_failed(c)
    \/ \E c \in Suspended : enable_loaded(c)
    \/ \E c \in Suspended : enable_fallback(c)
    \/ \E id \in InstrumentIds : setInstrument_call(id)
    \/ \E c \in Suspended : setInstrument_loaded(c)
    \/ \E c \in Suspended : setInstrument_failed(c)
    \/ playNote_call(60, 127)
    \/ stopNote_call(60)

InitStartup == AudioInit /\ MidiInit /\ AppInit /\ WebSocketInit

SpecStartup == InitStartup /\ [][StartupNext]_vars

\* The App: the enable button, the dock's instrument and volume controls, the
\* loads settling and the sync effects; a control is used only once the
\* effects of the last render have run
AppNext ==
    \/ ~EffectPending /\ ~isLoading /\ enable_call
    \/ \E c \in Suspended : enable_started(c)
    \/ \E c \in Suspended : enable_failed(c)
    \/ \E c \in Suspended : enable_loaded(c)
    \/ \E c \in Suspended : enable_fallback(c)
    \/ \E id \in InstrumentIds : ~EffectPending /\ handleInstrumentChange(id)
    \/ \E c \in Suspended : setInstrument_loaded(c)
    \/ \E c \in Suspended : setInstrument_failed(c)
    \/ \E v \in SliderVolumes : ~EffectPending /\ handleVolumeChange(v)
    \/ instrumentSyncEffect
    \/ volumeSyncEffect

InitApp == AudioInit /\ MidiInit /\ AppLoaded /\ WebSocketInit

SpecApp == InitApp /\ [][AppNext]_vars

\* The App with default settings after enable() loaded the default piano and
\* the sync effects ran
AppEnabled ==
    /\ isEnabled = TRUE
    /\ instrumentRef = loadSampledInstrument(DEFAULT_INSTRUMENT_ID)
    /\ settings = [instrumentId |-> DEFAULT_INSTRUMENT_ID, volume |-> DEFAULT_VOLUME]
    /\ effectDeps = [instrument |-> InstrumentDeps, volume |-> VolumeDeps]

\* The dock's controls on an enabled engine
SelectNext ==
    \/ \E id \in InstrumentIds : ~EffectPending /\ handleInstrumentChange(id)
    \/ \E c \in Suspended : setInstrument_loaded(c)
    \/ \E c \in Suspended : setInstrument_failed(c)
    \/ \E v \in SliderVolumes : ~EffectPending /\ handleVolumeChange(v)
    \/ instrumentSyncEffect
    \/ volumeSyncEffect

InitSelect == AudioAfterEnable /\ MidiInit /\ AppEnabled /\ WebSocketInit

SpecSelect == InitSelect /\ [][SelectNext]_vars

InitWebSocket == AudioInit /\ MidiInit /\ AppInit /\ WebSocketInit

SpecWebSocket == InitWebSocket /\ [][WebSocketNext]_vars

\* The same engine until the component unmounts
TeardownNext ==
    \/ \E n \in Notes : ~unmounted /\ playNote_call(n, 127)
    \/ \E n \in Notes : ~unmounted /\ stopNote_call(n)
    \/ \E id \in InstrumentIds : ~unmounted /\ setInstrument_call(id)
    \/ \E c \in Suspended : ~unmounted /\ setInstrument_loaded(c)
    \/ \E c \in Suspended : ~unmounted /\ setInstrument_failed(c)
    \/ unmount

InitTeardown == AudioAfterEnable /\ MidiInit /\ AppInit /\ WebSocketInit

SpecTeardown == InitTeardown /\ [][TeardownNext]_vars

-----------------------------------------------------------------------------
\* Properties of the audio voice manager (SpecAudio)

\* The backend setInstrument(id) installs when its load resolves
BackendOf(id) ==
    IF getInstrument(id).type = "sampled" THEN loadSampledInstrument(id)
    ELSE createSynth(id)

\* How many voices of the bag satisfy p
CountVoices(vs, p(_)) == BagCardinality(DropVoices(vs, LAMBDA v : ~p(v)))

\* A call of setInstrument passed its guard in this step
SwitchRequested == lastSwitch'.tick # lastSwitch.tick

\* C1: when setInstrument(B) was called while an earlier setInstrument's load was
\* still in flight, then once no call is in flight and B's backend was installed,
\* the installed backend and currentInstrumentId are B's.
C1_LastRequestWins ==
    (/\ calls = EmptyBag
     /\ lastSwitch.overlapped
     /\ lastSwitch.status = "installed")
    => /\ currentInstrumentId = lastSwitch.id
       /\ instrumentRef = BackendOf(lastSwitch.id)

\* C2: while a setInstrument load is in flight and isLoading is true, no step
\* starts a voice or records a stop handle.
C2_NotesDroppedWhileLoading ==
    [][(isLoading /\ \E c \in Suspended : SwitchLoading(c))
       => /\ BagCardinality(voices') <= BagCardinality(voices)
          /\ DOMAIN activeNotesRef' \subseteq DOMAIN activeNotesRef]_vars

\* C3: a setInstrument call releases every sounding voice of the outgoing
\* backend: the voices left after it are those of earlier backend instances.
C3_OutgoingVoicesReleased ==
    [][SwitchRequested
       => BagCardinality(voices') = CountVoices(voices, LAMBDA v : ~v.cur)]_vars

\* C4: a playNote for a note that has a map entry and a live voice on the
\* installed backend leaves exactly one live voice of that note on it.
C4_RepeatedNoteOnReplacesVoice ==
    [][\A n \in Notes :
          (/\ n \in DOMAIN activeNotesRef
           /\ CountVoices(voices, LAMBDA v : v.cur /\ v.note = n) >= 1
           /\ CountVoices(voices', LAMBDA v : v.note = n)
                > CountVoices(voices, LAMBDA v : v.note = n))
          => CountVoices(voices', LAMBDA v : v.cur /\ v.note = n) = 1]_vars

-----------------------------------------------------------------------------
\* Properties of the MIDI listener (SpecMidi)

\* C5: the ActiveNoteSet is exactly the set of notes the bound device switched
\* on with no later noteOff and no later clear, each at most once.
C5_RegistryIsHeldNotes ==
    /\ Elements(activeNotes) = boundHeld
    /\ \A i, j \in 1..Len(activeNotes) : activeNotes[i] = activeNotes[j] => i = j

\* C6: after selectInput no input other than the selected one has a note
\* listener attached.
C6_OnlySelectedInputBound ==
    lastOp = "selectInput"
    => \A d \in Devices : d # selectedInput => Attached(d) = 0

\* C7: selectInput empties the ActiveNoteSet and leaves no voice sounding for a
\* note that was in it.
C7_SelectInputAllNotesOff ==
    [][lastOp' = "selectInput"
       => /\ activeNotes' = <<>>
          /\ \A n \in Elements(activeNotes) :
                CountVoices(voices', LAMBDA v : v.note = n) = 0]_vars

-----------------------------------------------------------------------------
\* Properties of chord detection (SpecChord)

\* Every order in which the elements of a Set can have been inserted
Orders(set) ==
    {p \in [1..Len(set) -> Elements(set)] :
        \A i, j \in 1..Len(set) : p[i] = p[j] => i = j}

SameChord(a, b) ==
    /\ a.name = b.name
    /\ a.root = b.root
    /\ a.type = b.type
    /\ a.quality = b.quality

\* C8: every insertion order of the active notes yields the same detectChord
\* result (name, root, type and quality).
C8_OrderIndependent ==
    \A p \in Orders(activeNotes) : SameChord(detectChord(p), detectedChord)

\* C9: while fewer than 2 notes are held, the detected chord is none.
C9_FewerThanTwoIsNone ==
    Cardinality(boundHeld) < 2 => detectedChord = NoChord

\* C9 witness: one note is left held after a key went up
C9_Witness ==
    /\ lastOp = "noteoff"
    /\ Cardinality(boundHeld) = 1
    /\ Len(activeNotes) = 1

\* C10: a chord is detected only when the active notes cover at least 2
\* distinct pitch classes and the matcher returned a name for them.
C10_CandidateNeedsTwoPitchClasses ==
    detectedChord # NoChord
    => /\ Cardinality({midiToPitchClass(n) : n \in Elements(activeNotes)}) >= 2
       /\ \/ Len(Chord_detect([i \in 1..Len(activeNotes) |-> midiToNote(activeNotes[i])])) > 0
          \/ Len(Chord_detect([i \in 1..Len(getPitchClasses(activeNotes)) |->
                     Note_pitchClass(midiToNote(getPitchClasses(activeNotes)[i]))])) > 0

\* C10 witness: two notes of one pitch class (C4 and C5) are active
C10_Witness ==
    /\ Elements(activeNotes) = {60, 72}
    /\ detectedChord = NoChord

\* The names Chord.detect is given first (with octaves) and in the retry
\* (pitch classes only)
OctaveAwareNames == [i \in 1..Len(activeNotes) |-> midiToNote(activeNotes[i])]

PitchClassOnlyNames ==
    [i \in 1..Len(getPitchClasses(activeNotes)) |->
        Note_pitchClass(midiToNote(getPitchClasses(activeNotes)[i]))]

C12_DominantSeventhIsDominant ==
    (detectedChord # NoChord /\ detectedChord.type = "dominant seventh")
    => detectedChord.quality = "dominant"

\* C13: C4 E4 G4 is named C with quality Major, C4 Eb4 G4 is named Cm with
\* quality Minor, C4 E4 G4 Bb4 is named C7 with quality Dominant (the notes
\* played in ascending order).
C13_NamedExamples ==
    /\ activeNotes = <<60, 64, 67>>
       => /\ detectedChord.name = [tonic |-> "C", alias |-> "", bass |-> ""]
          /\ detectedChord.quality = "major"
    /\ activeNotes = <<60, 63, 67>>
       => /\ detectedChord.name = [tonic |-> "C", alias |-> "m", bass |-> ""]
          /\ detectedChord.quality = "minor"
    /\ activeNotes = <<60, 64, 67, 70>>
       => /\ detectedChord.name = [tonic |-> "C", alias |-> "7", bass |-> ""]
          /\ detectedChord.quality = "dominant"

\* C14: when the active notes are exactly a root, its major third and its
\* perfect fifth, the detected chord has quality Major and the pitch-class name
\* of the lowest note as its root.
C14_MajorTriadRootPosition ==
    \A r \in ChordNotes :
        Elements(activeNotes) = {r, r + 4, r + 7}
        => /\ detectedChord.quality = "major"
           /\ detectedChord.root = midiToNote(r).pc

-----------------------------------------------------------------------------
\* Properties of velocity and volume (SpecLevels)

\* C15: a Synthesized backend is passed max(0.1, v/127) (as a numerator over
\* 1270: 127 for v = 0, 1270 for v = 127) and a Sampled backend v clamped to
\* [10, 127]; nothing is started below these floors.
C15_VelocityFloors ==
    LET v == lastStart.velocity
        passed == lastStart.value
    IN /\ lastStart.kind = "synth"
          => /\ 10 * passed >= 1270
             /\ passed = IF 10 * v >= 127 THEN 10 * v ELSE 127
             /\ v = 0 => passed = 127
             /\ v = 127 => passed = 1270
       /\ lastStart.kind = "sampled"
          => /\ passed >= 10 /\ passed <= 127
             /\ (v >= 10 /\ v <= 127) => passed = v
             /\ v = 0 => passed = 10

\* C15 witness: a note of velocity 0 was started on the synth at the floor
C15_Witness ==
    /\ lastStart.kind = "synth"
    /\ lastStart.velocity = 0
    /\ lastStart.value = 127
    /\ BagCardinality(voices) > 0

\* C16: setVolume(v) on a Synthesized backend sets its gain to the linear map
\* of 0..100 onto [-60 dB, 0 dB], -Infinity for 0 and 0 dB for 100.
C16_SynthVolumeLinear ==
    [][(instrumentRef'.kind = "synth" /\ volume' # volume)
       => instrumentRef'.volume = IF volume' = 0 THEN MinusInfinity
                                  ELSE -6000 + 60 * volume']_vars

\* C17: a note of velocity 127 started on a Sampled backend while the volume is
\* 0 is passed a lower velocity than the 127 it gets at full volume.
C17_SampledVolumeScalesVelocity ==
    [][(/\ instrumentRef.kind = "sampled"
        /\ volume = 0
        /\ BagCardinality(voices') > BagCardinality(voices)
        /\ lastStart'.velocity = 127)
       => lastStart'.value < 127]_vars

-----------------------------------------------------------------------------
\* Properties of the error paths

\* enable()'s default load settles in this step without the piano being installed
EnableLoadFailed ==
    \E c \in Suspended :
        /\ c.op = "enable" /\ c.pc = "load"
        /\ calls' = Settle(calls, c)
        /\ instrumentRef' # loadSampledInstrument(DEFAULT_INSTRUMENT_ID)

C19_SwitchFailureSurfaced ==
    [][(lastSwitch.status = "loading" /\ lastSwitch'.status = "failed")
       => error' # "null"]_vars

\* C20: a connect() that is refused while MIDI was never enabled sets a
\* non-null error, leaves isEnabled false, binds no device, leaves the
\* ActiveNoteSet alone and ends with isConnecting false.
C20_ConnectFailsNonFatally ==
    [][(~midiEnabled /\ lastOp' = "connect failed")
       => /\ midiError' # "null"
          /\ midiEnabled' = FALSE
          /\ selectedInput' = 0
          /\ \A d \in Devices : webMidi'.listeners[d] = [cur |-> 0, old |-> 0]
          /\ activeNotes' = activeNotes
          /\ isConnecting' = FALSE]_vars

\* C20 witness: a refused connect() left its error
C20_Witness ==
    /\ lastOp = "connect failed"
    /\ midiError # "null"
    /\ ~midiEnabled
    /\ ~isConnecting
    /\ selectedInput = 0

-----------------------------------------------------------------------------
\* Properties of connect, disconnect and the host's port events

\* The listeners attached to input d after the step
AttachedNext(d) == webMidi'.listeners[d].cur + webMidi'.listeners[d].old

\* A connect() call got MIDI access in this step
ConnectGranted == lastOp' = "connect" /\ connecting' = connecting - 1

\* C21: a connect() that is granted while a device is bound leaves the bound
\* device as it is and attaches no listener to any device.
C21_ConnectKeepsBoundDevice ==
    [][(selectedInput # 0 /\ ConnectGranted)
       => /\ selectedInput' = selectedInput
          /\ \A d \in Devices : AttachedNext(d) = Attached(d)]_vars

\* C22: disconnect() leaves the ActiveNoteSet empty, no device bound, the device
\* list empty and isEnabled false, and as long as isEnabled stays false a note
\* event from any device changes neither the ActiveNoteSet nor the voices.
C22_DisconnectReleasesAll ==
    [][/\ lastOp' = "disconnect"
          => /\ activeNotes' = <<>>
             /\ selectedInput' = 0
             /\ inputs' = {}
             /\ midiEnabled' = FALSE
       /\ (~midiEnabled /\ lastOp' \in {"noteon", "noteoff"})
          => /\ activeNotes' = activeNotes
             /\ voices' = voices
             /\ activeNotesRef' = activeNotesRef]_vars

\* C22 witness: disconnect() ran while a note started through the bound device
\* was still sounding
C22_Witness ==
    /\ lastOp = "disconnect"
    /\ BagCardinality(voices) > 0
    /\ ~webMidi.enabled
    /\ ~midiEnabled
    /\ selectedInput = 0
    /\ inputs = {}
    /\ activeNotes = <<>>

\* C23: a port event of a device other than the bound one updates the exposed
\* device list and leaves the bound device, its listeners and the ActiveNoteSet
\* as they are.
C23_HotplugLeavesBoundDevice ==
    [][\A d \in Devices :
          (/\ lastOp' \in {"host connected", "host disconnected"}
           /\ (d \in webMidi.ports) # (d \in webMidi'.ports)
           /\ webMidi.hooked
           /\ selectedInput # 0
           /\ d # selectedInput)
          => /\ inputs' = webMidi'.ports
             /\ selectedInput' = selectedInput
             /\ AttachedNext(selectedInput) = Attached(selectedInput)
             /\ activeNotes' = activeNotes]_vars

\* C23 witness: the other port went away while a key of the bound device is held
C23_Witness ==
    /\ lastOp = "host disconnected"
    /\ selectedInput = 1
    /\ webMidi.ports = {1}
    /\ inputs = {1}
    /\ activeNotes = <<60>>
    /\ Attached(1) = 1

\* C24: a noteOn of the bound device for a note it does not hold is forwarded
\* to the audio subscriber exactly once: exactly one voice starts.
C24_EventForwardedOnce ==
    [][(/\ lastOp' = "noteon"
        /\ instrumentRef # NoInstrument
        /\ boundHeld' # boundHeld)
       => BagCardinality(voices') = BagCardinality(voices) + 1]_vars

-----------------------------------------------------------------------------
\* Properties of stopNote, teardown and loading (useAudio)

\* The stop function the map stores for midiNote, "null" when it stores none
StoredHandle(midiNote) ==
    IF midiNote \in DOMAIN activeNotesRef THEN activeNotesRef[midiNote] ELSE "null"

\* The sounding voices whose stop function the map stores under midiNote
HeldVoices(vs, midiNote) == {v \in BagToSet(vs) : v.note = midiNote /\ v.held}

\* C26: stopNote(note) on a sampled backend with no stored handle for the note
\* stops nothing; after any stopNote(note) the map has no entry for the note and
\* no voice is left whose handle could be invoked again; one stopNote invokes
\* at most one handle, that of one voice.
C26_StopNoteMissingHandle ==
    [][\A n \in Notes : stopNote_call(n) =>
          /\ (instrumentRef.kind = "sampled" /\ StoredHandle(n) = "null")
             => voices' = voices
          /\ n \notin DOMAIN activeNotesRef'
          /\ HeldVoices(voices', n) = {}
          /\ BagCardinality(voices) - BagCardinality(voices') <= 1
          /\ \A v \in BagToSet(voices) : v.note # n => voices'[v] = voices[v]]_vars

\* C26 witness: on a sampled backend stopNote(60) invoked the stored handle and
\* removed the entry while an orphaned voice of note 60 sounds on; the next
\* stopNote(60) finds no handle.
C26_Witness ==
    /\ instrumentRef.kind = "sampled"
    /\ 60 \notin DOMAIN activeNotesRef
    /\ \E v \in BagToSet(voices) : v.note = 60 /\ v.kind = "sampled" /\ v.cur /\ ~v.held
    /\ 64 \in DOMAIN activeNotesRef
    /\ activeNotesRef[64] = "stopFn"

\* C27: at no time are two audio output contexts open (no context is closed
\* while the hook is mounted, so every context created is open).
C27_SingleOutputContext == contexts <= 1

\* C28: when the cleanup closes the output context, every voice has been
\* force-released: none is still sounding.
C28_ReleasedBeforeClose ==
    [][(unmounted' /\ ~unmounted /\ audioContextRef # 0) => voices' = EmptyBag]_vars

\* An instrument load of enable() or setInstrument() that has not settled
LoadInFlight == \E c \in Suspended : c.pc = "load"

\* C29: isLoading is true whenever an instrument load is in flight.
C29_LoadingWhileLoadInFlight == LoadInFlight => isLoading

\* The latest instrument switch failed and nothing has replaced it: no load is
\* in flight
SwitchFailed == lastSwitch.status = "failed" /\ calls = EmptyBag

\* C30: after a failed switch, until the next setInstrument request, there is no
\* active backend: no step starts a voice.
C30_NoBackendAfterFailedSwitch ==
    [][(SwitchFailed /\ lastSwitch' = lastSwitch)
       => BagCardinality(voices') <= BagCardinality(voices)]_vars

\* The ids of the static instrument catalog
CatalogIds == {instruments[i].id : i \in 1..Len(instruments)}

\* C31: with audio enabled and no call suspended, currentInstrumentId is an id
\* of the catalog and the installed backend is of that instrument's kind.
C31_CurrentIdNamesBackend ==
    (isEnabled /\ calls = EmptyBag)
    => /\ currentInstrumentId \in CatalogIds
       /\ instrumentRef.kind = getInstrument(currentInstrumentId).type

\* C33: every stop handle the map stores belongs to a voice of the backend
\* instance now installed; none of an outgoing backend remains after a swap.
C33_HandlesOfCurrentBackend ==
    \A v \in BagToSet(voices) : v.held => v.cur

\* C34: a bound device is a member of the exposed device list.
C34_SelectedInputListed == selectedInput # 0 => selectedInput \in inputs

\* C35: once every started enable() and setInstrument() call has settled,
\* resolved or rejected, isLoading is false.
C35_SettledMeansNotLoading == calls = EmptyBag => ~isLoading

\* C35 witness: a setInstrument load was rejected, no call is suspended and the
\* engine is not loading
C35_Witness ==
    /\ lastSwitch.status = "failed"
    /\ calls = EmptyBag
    /\ isEnabled
    /\ ~isLoading

\* C37: while enable() has not created the output context, setInstrument,
\* playNote and stopNote change nothing, and no backend is installed, no stop
\* handle is stored, no voice sounds and no switch was ever accepted.
C37_NoOpsBeforeContext ==
    [][audioContextRef = 0 =>
          /\ ((\E id \in InstrumentIds : setInstrument_call(id))
                 \/ playNote_call(60, 127) \/ stopNote_call(60))
             => UNCHANGED <<audioVars, levelVars>>
          /\ audioContextRef' = 0
             => /\ instrumentRef' = NoInstrument
                /\ activeNotesRef' = <<>>
                /\ voices' = EmptyBag
                /\ currentInstrumentId' = DEFAULT_INSTRUMENT_ID
                /\ lastSwitch'.status = "none"
                /\ \A c \in BagToSet(calls') : c.op = "enable"]_vars

\* C37 witness: two enable() calls wait for Tone.start(); no context exists yet
\* and the notes and switches tried so far have had no effect
C37_Witness ==
    /\ audioContextRef = 0
    /\ error = "null"
    /\ isLoading
    /\ instrumentRef = NoInstrument
    /\ activeNotesRef = <<>>
    /\ currentInstrumentId = DEFAULT_INSTRUMENT_ID
    /\ lastSwitch.status = "none"
    /\ BagCardinality(calls) = 2

-----------------------------------------------------------------------------
\* Properties of the App's sync effects (SpecApp) and of the WebSocket provider
\* (SpecWebSocket)

\* C32: an installed synth's gain is the dB value of the volume state whenever
\* no call is suspended and no sync effect is due.
C32_SynthGainFollowsVolume ==
    (instrumentRef.kind = "synth" /\ calls = EmptyBag /\ ~EffectPending)
    => instrumentRef.volume = volumeToDb(volume)

\* A setInstrument load for the id is in flight
LoadingInstrument(id) ==
    \E c \in Suspended : c.op = "setInstrument" /\ c.instrumentId = id

\* C36: the instrument sync effect starts no load for a selection whose load
\* handleInstrumentChange has already started and which is still in flight.
C36_OneLoadPerSelection ==
    [][(effectDeps'.instrument # effectDeps.instrument
        /\ LoadingInstrument(settings.instrumentId))
       => BagCardinality(calls') <= BagCardinality(calls)]_vars

\* C38: never more than maxReconnectAttempts reconnects are scheduled without a
\* connection opening in between; the step in which a connection opens sets the
\* attempt counter to 0; once that many were scheduled, a close schedules none.
C38_ReconnectsBounded ==
    [][/\ scheduled' <= maxReconnectAttempts
       /\ (wsRef' = "open" /\ wsRef # "open") => reconnectAttemptsRef' = 0
       /\ (scheduled = maxReconnectAttempts /\ isConnected' = isConnected
           /\ (wsRef' # wsRef \/ closing' < closing) /\ wsRef' = "null"
           /\ wsMounted' = wsMounted)
          => reconnectTimeoutRef' = reconnectTimeoutRef]_vars

\* C38 witness: the tenth reconnect in a row failed and nothing is scheduled
C38_Witness ==
    /\ scheduled = maxReconnectAttempts
    /\ reconnectAttemptsRef = maxReconnectAttempts
    /\ wsRef = "null"
    /\ reconnectTimeoutRef = "fired"
    /\ closing = 0

\* C39: once the provider is unmounted no socket is open or connecting and no
\* reconnect timer is pending.
C39_NothingAfterUnmount ==
    wsMounted = "unmounted" => (wsRef = "null" /\ reconnectTimeoutRef # "pending")

====
